---- MODULE Spec2Model ----
(***************************************************************************)
(* Risk-estimation and backtesting engine of the commodity risk framework: *)
(* src/src/risk_metrics.py (VaR estimators, expected shortfall, rolling    *)
(* VaR, VaR backtest) and src/src/credit_risk.py (credit_var, the single-  *)
(* factor correlated-default simulator).                                   *)
(*                                                                         *)
(* Numbers.  The code computes in IEEE doubles.  A number is modelled as   *)
(* an extended rational <<n, d>> in lowest terms with d >= 0, where        *)
(* <<0,0>> is NaN, <<1,0>> is +inf and <<-1,0>> is -inf, with the IEEE     *)
(* rules for NaN and the infinities (NaN compares false with everything,   *)
(* 0 * inf = NaN, x / 0 = +-inf or NaN as numpy scalars do).  Finite       *)
(* arithmetic is exact; the rounding of a double is not modelled, except   *)
(* for the two irrational functions: np.sqrt is exact on perfect squares   *)
(* and rounded down to the grid 1/SqrtGrid elsewhere, and stats.norm.ppf   *)
(* is tabulated to three decimals.                                         *)
(*                                                                         *)
(* Calls.  A caller invokes one operation with arguments of its choice     *)
(* (pc = "idle" -> "done"); the action is the whole function body, and     *)
(* `result` is what it returned (with the locals a claim speaks about).    *)
(* Return drops the call's transient data.  The only state that survives   *)
(* a call is numpy's global generator `rng`.                               *)
(***************************************************************************)
EXTENDS Integers, Sequences, FiniteSets, TLC

VARIABLES
    stream,   \* the deviates numpy's generator yields after seed(42); <<>>
              \* until the first call draws from it, fixed from then on
    rng,      \* global generator state: position in that sequence
    pc,       \* "idle" | "done"
    op,       \* the operation of the current call
    args,     \* its arguments
    result,   \* what it returned
    entry,    \* the generator state the current call found
    memo      \* per stochastic operation: argument list -> first result returned

vars == <<stream, rng, pc, op, args, result, entry, memo>>

(***************************** bounds **************************************)
MaxDays == 4      \* backtest: longest returns / VaR series
MaxLen == 3       \* estimators: longest return series
MaxRoll == 4      \* rolling VaR: longest return series
MaxSims == 3      \* largest n_sims
MaxN == 2         \* credit_var: most counterparties
Period == 4       \* period of the modelled deviate sequence
SqrtGrid == 10    \* resolution of an irrational square root

(************************ extended rationals *******************************)
AbsInt(n) == IF n < 0 THEN -n ELSE n

SignInt(n) == IF n < 0 THEN -1 ELSE IF n > 0 THEN 1 ELSE 0

RECURSIVE GCD(_, _)
GCD(a, b) == IF b = 0 THEN a ELSE GCD(b, a % b)

LCM(a, b) == (a \div GCD(a, b)) * b

\* n/d in lowest terms; n/0 is +-inf, 0/0 is NaN.
Q(n, d) ==
    IF d = 0 THEN <<SignInt(n), 0>>
    ELSE LET s == IF d < 0 THEN -1 ELSE 1
             g == GCD(AbsInt(n), AbsInt(d))
         IN <<(s * n) \div g, (s * d) \div g>>

R(n) == <<n, 1>>

NaN == <<0, 0>>

PInf == <<1, 0>>

NInf == <<-1, 0>>

Zero == <<0, 1>>

One == <<1, 1>>

IsNaN(x) == x = NaN

IsFin(x) == x[2] > 0

RNeg(x) == <<-x[1], x[2]>>

RAbs(x) == <<AbsInt(x[1]), x[2]>>

RAdd(x, y) ==
    IF IsNaN(x) \/ IsNaN(y) THEN NaN
    ELSE IF ~IsFin(x) THEN (IF ~IsFin(y) /\ y # x THEN NaN ELSE x)
    ELSE IF ~IsFin(y) THEN y
    ELSE LET m == LCM(x[2], y[2])
         IN Q(x[1] * (m \div x[2]) + y[1] * (m \div y[2]), m)

RSub(x, y) == RAdd(x, RNeg(y))

RMul(x, y) ==
    IF IsNaN(x) \/ IsNaN(y) THEN NaN
    ELSE IF IsFin(x) /\ IsFin(y)
         THEN LET g1 == GCD(AbsInt(x[1]), y[2])
                  g2 == GCD(AbsInt(y[1]), x[2])
              IN Q((x[1] \div g1) * (y[1] \div g2), (x[2] \div g2) * (y[2] \div g1))
         ELSE <<SignInt(x[1]) * SignInt(y[1]), 0>>

RDiv(x, y) ==
    IF IsNaN(x) \/ IsNaN(y) THEN NaN
    ELSE IF ~IsFin(y) THEN (IF IsFin(x) THEN Zero ELSE NaN)
    ELSE IF y[1] = 0 THEN <<SignInt(x[1]), 0>>
    ELSE RMul(x, Q(y[2], y[1]))

\* x < y as IEEE compares: false when either side is NaN.
RLt(x, y) ==
    IF IsNaN(x) \/ IsNaN(y) THEN FALSE
    ELSE IF ~IsFin(x) \/ ~IsFin(y)
         THEN (x = NInf /\ y # NInf) \/ (y = PInf /\ x # PInf)
         ELSE LET g == GCD(x[2], y[2])
              IN x[1] * (y[2] \div g) < y[1] * (x[2] \div g)

RLe(x, y) == RLt(x, y) \/ (~IsNaN(x) /\ x = y)

\* largest integer <= a finite rational
Floor(x) == x[1] \div x[2]

\* the largest k in lo..hi with k * k <= n, by bisection
RECURSIVE ISqrtIn(_, _, _)
ISqrtIn(n, lo, hi) ==
    IF lo >= hi THEN lo
    ELSE LET mid == (lo + hi + 1) \div 2
         IN IF mid * mid <= n THEN ISqrtIn(n, mid, hi) ELSE ISqrtIn(n, lo, mid - 1)

\* floor of the square root of a natural number
ISqrt(n) == ISqrtIn(n, 0, IF n < 46340 THEN n ELSE 46340)

IsSquare(n) == ISqrt(n) * ISqrt(n) = n

\* np.sqrt: NaN below zero (a RuntimeWarning, no exception)
np_sqrt(x) ==
    IF IsNaN(x) THEN NaN
    ELSE IF ~IsFin(x) THEN (IF x = PInf THEN PInf ELSE NaN)
    ELSE IF x[1] < 0 THEN NaN
    ELSE IF IsSquare(x[1]) /\ IsSquare(x[2]) THEN Q(ISqrt(x[1]), ISqrt(x[2]))
    ELSE Q(ISqrt(x[1] * x[2] * SqrtGrid * SqrtGrid), x[2] * SqrtGrid)

(***************************** sequences ***********************************)
\* an array held as an explicit tuple
Array(f) == f \o <<>>

RECURSIVE RSum(_)
RSum(s) == IF s = <<>> THEN Zero ELSE RAdd(Head(s), RSum(Tail(s)))

RECURSIVE Insert(_, _)
Insert(x, s) ==
    IF s = <<>> THEN <<x>>
    ELSE IF RLt(Head(s), x) THEN <<Head(s)>> \o Insert(x, Tail(s))
    ELSE <<x>> \o s

RECURSIVE np_sort(_)
np_sort(s) == IF s = <<>> THEN <<>> ELSE Insert(Head(s), np_sort(Tail(s)))

RECURSIVE SeqsUpTo(_, _)
SeqsUpTo(S, n) ==
    IF n = 0 THEN {<<>>}
    ELSE LET T == SeqsUpTo(S, n - 1)
         IN T \cup {Append(t, x) : t \in {u \in T : Len(u) = n - 1}, x \in S}

(*************************** risk_metrics.py *******************************)
\* The confidence levels a caller passes.  1/4, 1/2 and 3/4 are doubles, and
\* for them 1 - confidence and its multiples are computed without rounding.
ConfSet == {Q(1, 4), Q(1, 2), Q(3, 4), Q(9, 10), Q(19, 20)}

\* ---- var_backtest ------------------------------------------------------
traffic_light_strict(exception_rate, expected_rate) ==
    IF RLe(exception_rate, RMul(expected_rate, Q(3, 2))) THEN "GREEN"
    ELSE IF RLt(exception_rate, RMul(expected_rate, R(2))) THEN "YELLOW"
    ELSE "RED"

traffic_light_red_above(exception_rate, expected_rate) ==
    IF RLt(exception_rate, RMul(expected_rate, Q(3, 2))) THEN "GREEN"
    ELSE IF RLe(exception_rate, RMul(expected_rate, R(2))) THEN "YELLOW"
    ELSE "RED"

traffic_light(exception_rate, expected_rate) ==
    IF RLt(exception_rate, RMul(expected_rate, Q(3, 2))) THEN "GREEN"
    ELSE IF RLt(exception_rate, RMul(expected_rate, R(2))) THEN "YELLOW"
    ELSE "RED"

is_exception_nonstrict(ret, predicted) == RLe(ret, RNeg(predicted))

is_exception(ret, predicted) == RLt(ret, RNeg(predicted))

var_backtest(returns, var_series, confidence) ==
    LET valid == {i \in 1..Len(var_series) : ~IsNaN(var_series[i])}
        exceptions == Cardinality({i \in valid : is_exception(returns[i], var_series[i])})
        total == Cardinality(valid)
        exception_rate == RDiv(R(exceptions), R(total))
        expected_rate == RSub(One, confidence)
    IN [exceptions |-> exceptions,
        total_days |-> total,
        exception_rate |-> exception_rate,
        expected_rate |-> expected_rate,
        status |-> traffic_light(exception_rate, expected_rate)]

\* ---- np.percentile (linear interpolation between order statistics) ------
np_percentile(a, q) ==
    LET s == np_sort(a)
        n == Len(a)
        virtual == RMul(RDiv(q, R(100)), R(n - 1))
        j == Floor(virtual)
        gamma == RSub(virtual, R(j))
        lo == s[j + 1]
        hi == s[IF j + 2 <= n THEN j + 2 ELSE n]
    IN RAdd(lo, RMul(RSub(hi, lo), gamma))

np_mean(a) == RDiv(RSum(a), R(Len(a)))

\* ndarray.std(): population standard deviation (ddof = 0)
np_std(a) ==
    LET m == np_mean(a)
        sq == Array([i \in 1..Len(a) |-> RMul(RSub(a[i], m), RSub(a[i], m))])
    IN np_sqrt(np_mean(sq))

\* stats.norm.ppf, to three decimals on the probabilities the model uses
PpfLower(p) ==
    CASE p = Q(1, 2) -> Zero
      [] p = Q(1, 4) -> Q(-674, 1000)
      [] p = Q(1, 10) -> Q(-1282, 1000)
      [] p = Q(1, 20) -> Q(-1645, 1000)
      [] p = Q(1, 100) -> Q(-2326, 1000)

norm_ppf(p) ==
    IF IsNaN(p) \/ RLt(p, Zero) \/ RLt(One, p) THEN NaN
    ELSE IF p = Zero THEN NInf
    ELSE IF p = One THEN PInf
    ELSE IF RLt(Q(1, 2), p) THEN RNeg(PpfLower(RSub(One, p)))
    ELSE PpfLower(p)

\* ---- historical_var ----------------------------------------------------
historical_var_signed(returns, confidence, holding_period) ==
    LET scaled == Array([i \in 1..Len(returns) |-> RMul(returns[i], np_sqrt(holding_period))])
        pct == RMul(RSub(One, confidence), R(100))
    IN np_percentile(scaled, pct)

historical_var(returns, confidence, holding_period) ==
    LET scaled == Array([i \in 1..Len(returns) |-> RMul(returns[i], np_sqrt(holding_period))])
        pct == RMul(RSub(One, confidence), R(100))
        var == np_percentile(scaled, pct)
    IN RAbs(var)

\* ---- parametric_var ----------------------------------------------------
parametric_var(returns, confidence, holding_period) ==
    LET mu == np_mean(returns)
        sigma == np_std(returns)
        z == norm_ppf(RSub(One, confidence))
    IN RNeg(RAdd(RMul(mu, holding_period),
                 RMul(RMul(z, sigma), np_sqrt(holding_period))))

\* ---- numpy's global generator ------------------------------------------

\* np.random.seed(42): the generator restarts at the head of its sequence.
np_random_seed_skipped(g) == g

np_random_seed(g) == 0

\* np.random.normal(loc, scale, size): size deviates from position g on
np_random_normal(st, g, loc, scale, size) ==
    Array([k \in 1..size |-> RAdd(loc, RMul(scale, st[(g + k - 1) % Period]))])

Advance(g, size) == (g + size) % Period

\* ---- monte_carlo_var ---------------------------------------------------
\* <<the VaR returned, the generator state left behind>>
monte_carlo_var(st, g, returns, n_sims, confidence, holding_period) ==
    LET mu == np_mean(returns)
        sigma == np_std(returns)
        g0 == np_random_seed(g)
        sims == np_random_normal(st, g0, RMul(mu, holding_period),
                                 RMul(sigma, np_sqrt(holding_period)), n_sims)
        pct == RMul(RSub(One, confidence), R(100))
    IN <<RAbs(np_percentile(sims, pct)), Advance(g0, n_sims)>>

\* ---- expected_shortfall ------------------------------------------------
TailOf(returns, var) == SelectSeq(returns, LAMBDA r : RLt(r, RNeg(var)))

expected_shortfall_no_fallback(returns, confidence) ==
    LET var == historical_var(returns, confidence, One)
        tail == TailOf(returns, var)
    IN RAbs(np_mean(tail))

expected_shortfall(returns, confidence) ==
    LET var == historical_var(returns, confidence, One)
        tail == TailOf(returns, var)
    IN IF Len(tail) > 0 THEN RAbs(np_mean(tail)) ELSE var

\* ---- rolling_var -------------------------------------------------------
\* Python's returns[i-window:i] for 0 <= i-window <= i <= n, as positions
\* i-window+1 .. i of the 1-based sequence.
ChunkLookahead(returns, i, window) == SubSeq(returns, i - window + 2, i + 1)

Chunk(returns, i, window) == SubSeq(returns, i - window + 1, i)

\* the body of `for i in range(window, n)`, from i on
RECURSIVE RollingLoop(_, _, _, _, _)
RollingLoop(returns, window, confidence, var_series, i) ==
    IF i >= Len(returns) THEN var_series
    ELSE RollingLoop(returns, window, confidence,
                     [var_series EXCEPT ![i + 1] =
                         historical_var(Chunk(returns, i, window), confidence, One)],
                     i + 1)

rolling_var(returns, window, confidence) ==
    LET n == Len(returns)
        var_series == Array([k \in 1..n |-> NaN])
    IN RollingLoop(returns, window, confidence, var_series, window)

\* ---- portfolio_var -----------------------------------------------------
\* weights.T @ cov_matrix @ weights
QuadForm(w, cov) ==
    LET n == Len(w)
        row(i) == RSum(Array([j \in 1..n |-> RMul(cov[i][j], w[j])]))
    IN RSum(Array([i \in 1..n |-> RMul(w[i], row(i))]))

portfolio_var(weights, cov_matrix, confidence, portfolio_value) ==
    LET port_var == np_sqrt(QuadForm(weights, cov_matrix))
        z == norm_ppf(confidence)
    IN RMul(RMul(port_var, z), portfolio_value)

(**************************** credit_risk.py *******************************)
np_max_first(a) == a[1]

RECURSIVE np_max(_)
np_max(a) ==
    IF Len(a) = 1 THEN a[1]
    ELSE LET m == np_max(Tail(a))
         IN IF RLt(m, Head(a)) THEN Head(a) ELSE m

\* a numpy boolean in arithmetic
AsNumber(b) == IF b THEN One ELSE Zero

\* default if asset < threshold
defaults_when(asset, threshold) == RLt(asset, threshold)

\* One pass of the loop body, drawing from position g of the generator:
\* one systematic deviate, then one idiosyncratic deviate per counterparty.
Trial(st, g, exposures, pds, lgds, correlation) ==
    LET n == Len(exposures)
        z == np_random_normal(st, g, Zero, One, 1)[1]
        eps == np_random_normal(st, Advance(g, 1), Zero, One, n)
        asset == Array([i \in 1..n |->
                     RAdd(RMul(np_sqrt(correlation), z),
                          RMul(np_sqrt(RSub(One, correlation)), eps[i]))])
        thresholds == Array([i \in 1..n |-> norm_ppf(pds[i])])
        defaults == Array([i \in 1..n |-> defaults_when(asset[i], thresholds[i])])
        loss == RSum(Array([i \in 1..n |->
                        RMul(RMul(AsNumber(defaults[i]), exposures[i]), lgds[i])]))
    IN [asset |-> asset, thresholds |-> thresholds, defaults |-> defaults,
        loss |-> loss]

\* <<what the call returned, the generator state left behind>>.  With no
\* trial at all (n_sims <= 0) losses.max() raises ValueError on the empty array.
credit_var(st, g, exposures, pds, lgds, correlation, n_sims, confidence) ==
    LET n == Len(exposures)
        g0 == np_random_seed(g)
        trials == Array([t \in 1..n_sims |->
                      Trial(st, Advance(g0, (t - 1) * (n + 1)),
                            exposures, pds, lgds, correlation)])
        losses == Array([t \in 1..n_sims |-> trials[t].loss])
        gEnd == Advance(g0, n_sims * (n + 1))
    IN IF n_sims <= 0
       THEN <<[raised |-> TRUE, expected_loss |-> NaN, credit_var |-> NaN,
               worst_case |-> NaN, trials |-> <<>>], gEnd>>
       ELSE <<[raised |-> FALSE,
               expected_loss |-> np_mean(losses),
               credit_var |-> np_percentile(losses, RMul(confidence, R(100))),
               worst_case |-> np_max(losses),
               trials |-> trials], gEnd>>

(****************************** calls **************************************)
Deviates == {R(-2), R(2)}

Streams == [0..(Period - 1) -> Deviates]

NoMemo == [credit_var |-> <<>>, monte_carlo_var |-> <<>>]

\* The sequence behind seed(42) is one fixed sequence; which one is open
\* until a call draws from it.
SeedSequences(st) == IF DOMAIN st = {} THEN Streams ELSE {st}

\* No call yet: the generator is in its start state (position 0).
Init ==
    /\ pc = "idle"
    /\ op = "none"
    /\ args = <<>>
    /\ result = <<>>
    /\ stream = <<>>
    /\ rng = 0
    /\ entry = 0
    /\ memo = NoMemo

\* a call that does not touch the generator
Pure(o, a, r) ==
    /\ pc' = "done"
    /\ op' = o
    /\ args' = a
    /\ result' = r
    /\ entry' = rng
    /\ UNCHANGED <<stream, rng, memo>>

\* a call that draws from the sequence st, returns out[1] and leaves the
\* generator in state out[2]
Stochastic(o, a, st, out) ==
    /\ pc' = "done"
    /\ op' = o
    /\ args' = a
    /\ result' = out[1]
    /\ rng' = out[2]
    /\ entry' = rng
    /\ stream' = st
    /\ UNCHANGED memo

\* ---- var_backtest ------------------------------------------------------
DayReturns == {R(-2), R(-1), R(1)}

DayVaRs == {NaN, R(1), R(2)}

BacktestInputs ==
    {<<r, v>> \in SeqsUpTo(DayReturns, MaxDays) \X SeqsUpTo(DayVaRs, MaxDays) :
        Len(r) = Len(v) /\ Len(r) >= 1}

CallVarBacktest ==
    /\ pc = "idle"
    /\ \E rv \in BacktestInputs, c \in ConfSet :
           Pure("var_backtest",
                [returns |-> rv[1], var_series |-> rv[2], confidence |-> c],
                var_backtest(rv[1], rv[2], c))

NextBacktest == CallVarBacktest

SpecBacktest == Init /\ [][NextBacktest]_vars

\* ---- the estimators and expected_shortfall ------------------------------
\* returns, in percent
ReturnValues == {R(-3), R(-1), R(2)}

ReturnSeries == {r \in SeqsUpTo(ReturnValues, MaxLen) : Len(r) >= 1}

HoldingPeriods == {One, R(2), R(4)}

CallHistoricalVar ==
    /\ pc = "idle"
    /\ \E r \in ReturnSeries, c \in ConfSet, h \in HoldingPeriods :
           Pure("historical_var",
                [returns |-> r, confidence |-> c, holding_period |-> h],
                historical_var(r, c, h))

CallParametricVar ==
    /\ pc = "idle"
    /\ \E r \in ReturnSeries, c \in ConfSet, h \in HoldingPeriods :
           Pure("parametric_var",
                [returns |-> r, confidence |-> c, holding_period |-> h],
                parametric_var(r, c, h))

MonteCarloCall(Rs, Ns, Cs, Hs) ==
    /\ pc = "idle"
    /\ \E st \in SeedSequences(stream), r \in Rs, n \in Ns, c \in Cs, h \in Hs :
           Stochastic("monte_carlo_var",
                      [returns |-> r, n_sims |-> n, confidence |-> c,
                       holding_period |-> h],
                      st, monte_carlo_var(st, rng, r, n, c, h))

CallMonteCarloVar ==
    /\ pc = "idle"
    /\ MonteCarloCall(ReturnSeries, 1..MaxSims, {Q(1, 2), Q(19, 20)}, {One, R(4)})

CallExpectedShortfall ==
    /\ pc = "idle"
    /\ \E r \in ReturnSeries, c \in ConfSet :
           Pure("expected_shortfall",
                [returns |-> r, confidence |-> c],
                expected_shortfall(r, c))

WeightVectors == {<<Q(1, 2), Q(1, 2)>>, <<One, Zero>>, <<Q(3, 2), Q(-1, 2)>>}

\* a diagonal, a singular and an indefinite matrix
CovMatrices ==
    {<<<<R(4), Zero>>, <<Zero, R(4)>>>>,
     <<<<R(4), R(2)>>, <<R(2), One>>>>,
     <<<<One, R(2)>>, <<R(2), One>>>>}

PortfolioValues == {R(1000), R(-1000)}

CallPortfolioVar ==
    /\ pc = "idle"
    /\ \E w \in WeightVectors, m \in CovMatrices, c \in ConfSet, v \in PortfolioValues :
           Pure("portfolio_var",
                [weights |-> w, cov_matrix |-> m, confidence |-> c,
                 portfolio_value |-> v],
                portfolio_var(w, m, c, v))

NextVaR ==
    \/ CallHistoricalVar
    \/ CallParametricVar
    \/ CallMonteCarloVar
    \/ CallPortfolioVar
    \/ CallExpectedShortfall

SpecVaR == Init /\ [][NextVaR]_vars

\* ---- rolling_var -------------------------------------------------------
RollingSeries == SeqsUpTo(ReturnValues, MaxRoll)

Windows == 1..(MaxRoll + 1)

CallRollingVar ==
    /\ pc = "idle"
    /\ \E r \in RollingSeries, w \in Windows, c \in ConfSet :
           Pure("rolling_var",
                [returns |-> r, window |-> w, confidence |-> c],
                rolling_var(r, w, c))

NextRolling == CallRollingVar

SpecRolling == Init /\ [][NextRolling]_vars

\* ---- credit_var --------------------------------------------------------
\* <<exposure_at_default, probability_of_default, loss_given_default>>
Counterparties ==
    {<<R(100), Zero, One>>, <<R(60), Q(1, 2), Q(1, 2)>>, <<R(40), One, Q(1, 2)>>}

Portfolios == {p \in SeqsUpTo(Counterparties, MaxN) : Len(p) >= 1}

Column(p, k) == Array([i \in 1..Len(p) |-> p[i][k]])

Correlations == {Q(-5, 4), Zero, Q(9, 25), One, Q(25, 16)}

CreditConfs == {Q(1, 2), Q(19, 20)}

CreditCall(Ps, Rhos, Ns, Cs) ==
    /\ pc = "idle"
    /\ \E st \in SeedSequences(stream), p \in Ps, rho \in Rhos, n \in Ns, c \in Cs :
           Stochastic("credit_var",
                      [exposures |-> Column(p, 1), pds |-> Column(p, 2),
                       lgds |-> Column(p, 3), correlation |-> rho,
                       n_sims |-> n, confidence |-> c],
                      st, credit_var(st, rng, Column(p, 1), Column(p, 2), Column(p, 3),
                                     rho, n, c))

CallCreditVar ==
    /\ pc = "idle"
    /\ CreditCall(Portfolios, Correlations, 0..MaxSims, CreditConfs)

NextCredit == CallCreditVar

SpecCredit == Init /\ [][NextCredit]_vars

\* ---- a session of calls sharing the generator --------------------------
\* Two credit_var and two monte_carlo_var argument lists; the calls consume
\* different numbers of deviates.
SessionPortfolios == {<<<<R(60), Q(1, 2), Q(1, 2)>>>>}

SessionReturns == {<<R(-3), R(2)>>}

SessionCreditVar ==
    /\ pc = "idle"
    /\ CreditCall(SessionPortfolios, {Q(9, 25)}, {1, 2}, {Q(1, 2)})

SessionMonteCarloVar ==
    /\ pc = "idle"
    /\ MonteCarloCall(SessionReturns, {2, 3}, {Q(1, 2)}, {One})

\* any other user of np.random draws a deviate
OtherDraw ==
    /\ pc = "idle"
    /\ rng' = Advance(rng, 1)
    /\ UNCHANGED <<stream, pc, op, args, result, entry, memo>>

\* The call returns; the caller keeps the first result of each argument list.
Return ==
    /\ pc = "done"
    /\ pc' = "idle"
    /\ op' = "none"
    /\ args' = <<>>
    /\ result' = <<>>
    /\ memo' = IF args \in DOMAIN memo[op] THEN memo
               ELSE [memo EXCEPT ![op] = (args :> result) @@ @]
    /\ UNCHANGED <<stream, rng, entry>>

NextSession ==
    \/ SessionCreditVar
    \/ SessionMonteCarloVar
    \/ OtherDraw
    \/ Return

SpecSession == Init /\ [][NextSession]_vars

(***************************** properties **********************************)
Done(o) == pc = "done" /\ op = o

\* ---- var_backtest ------------------------------------------------------
\* exceptions / total_days against 1 - confidence, as integers:
\* rate < m * expected  <=>  2 * e * cd < (2m) * (cd - cn) * t  for m = 3/2, 2
RateTimes(r) == 2 * r.exceptions * args.confidence[2]

ExpectedTimes(r, twiceM) ==
    twiceM * (args.confidence[2] - args.confidence[1]) * r.total_days

\* C1: with at least one defined VaR position, the status is GREEN iff
\* exception_rate < 1.5 * expected_rate, YELLOW iff 1.5 * expected_rate <=
\* exception_rate < 2 * expected_rate, RED otherwise; a rate of exactly
\* 2 * expected_rate is RED.
C1_TrafficLightThresholds ==
    (Done("var_backtest") /\ result.total_days >= 1) =>
        /\ result.expected_rate = RSub(One, args.confidence)
        /\ result.status = "GREEN" <=> RateTimes(result) < ExpectedTimes(result, 3)
        /\ result.status = "YELLOW" <=>
              /\ ExpectedTimes(result, 3) <= RateTimes(result)
              /\ RateTimes(result) < ExpectedTimes(result, 4)
        /\ result.status = "RED" <=> ExpectedTimes(result, 4) <= RateTimes(result)
        /\ result.status \in {"GREEN", "YELLOW", "RED"}

C1_Witness ==
    /\ Done("var_backtest")
    /\ result.total_days >= 1
    /\ result.exceptions < result.total_days
    /\ RateTimes(result) = ExpectedTimes(result, 4)
    /\ result.status = "RED"

AtGreenBoundary ==
    /\ Done("var_backtest")
    /\ result.total_days >= 1
    /\ RateTimes(result) = ExpectedTimes(result, 3)

\* C2 as claimed: an exception_rate of exactly 1.5 * expected_rate is GREEN.
C2_BoundaryIsGreen == AtGreenBoundary => result.status = "GREEN"

\* C2 amended: an exception_rate of exactly 1.5 * expected_rate is YELLOW
\* (GREEN needs exception_rate strictly below 1.5 * expected_rate).
C2_BoundaryIsYellow == AtGreenBoundary => result.status = "YELLOW"

C2_Witness == AtGreenBoundary /\ result.exception_rate = Q(3, 4)

Defined(v) == v[1] # 0 \/ v[2] # 0

\* return strictly below minus the VaR, for a finite return and VaR
StrictlyBelowMinus(r, v) == r[1] * v[2] < (-v[1]) * r[2]

ScoredDays == {i \in 1..Len(args.var_series) : Defined(args.var_series[i])}

ExceptionDays ==
    {i \in ScoredDays : StrictlyBelowMinus(args.returns[i], args.var_series[i])}

\* C3: only defined VaR positions are scored: total_days is their number,
\* exceptions the number of those whose return is strictly below -VaR,
\* exception_rate = exceptions / total_days and 0 <= exceptions <= total_days.
C3_OnlyDefinedPositionsScored ==
    Done("var_backtest") =>
        /\ result.total_days = Cardinality(ScoredDays)
        /\ result.exceptions = Cardinality(ExceptionDays)
        /\ 0 <= result.exceptions /\ result.exceptions <= result.total_days
        /\ result.total_days >= 1 =>
              /\ IsFin(result.exception_rate)
              /\ result.exception_rate[1] * result.total_days
                    = result.exceptions * result.exception_rate[2]

\* an undefined position with a large loss, a defined one with the return
\* exactly at -VaR (no exception) and a defined one beyond it
C3_Witness ==
    /\ Done("var_backtest")
    /\ \E i \in 1..Len(args.var_series) :
          ~Defined(args.var_series[i]) /\ args.returns[i] = R(-2)
    /\ \E i \in ScoredDays : args.returns[i] = RNeg(args.var_series[i])
    /\ result.exceptions >= 1
    /\ result.exceptions < result.total_days

\* ---- credit_var --------------------------------------------------------
Returned == Done("credit_var") /\ ~result.raised

Losses == [t \in 1..Len(result.trials) |-> result.trials[t].loss]

\* C5 as claimed: worst_case >= credit_var and credit_var >= expected_loss.
C5_QuantileOrdering ==
    Returned =>
        /\ RLe(result.credit_var, result.worst_case)
        /\ RLe(result.expected_loss, result.credit_var)

\* C5 amended: worst_case, the largest trial loss, is never below credit_var,
\* the confidence-percentile of the trial losses (the sample mean
\* expected_loss may lie above credit_var).
C5_WorstCaseBoundsVaR ==
    Returned =>
        /\ RLe(result.credit_var, result.worst_case)
        /\ \E t \in 1..Len(result.trials) : Losses[t] = result.worst_case
        /\ \A t \in 1..Len(result.trials) : RLe(Losses[t], result.worst_case)

C5_Witness ==
    /\ Returned
    /\ RLt(result.credit_var, result.expected_loss)
    /\ RLt(result.credit_var, result.worst_case)

InUnitInterval(rho) == RLe(Zero, rho) /\ RLt(rho, One)

\* C6: a correlation outside [0, 1) is rejected with an error; no result
\* record is returned for it.
C6_RejectsBadCorrelation ==
    (Done("credit_var") /\ ~InUnitInterval(args.correlation)) => result.raised

PdOne == {i \in 1..Len(args.pds) : args.pds[i] = One}

PdPositive == {i \in 1..Len(args.pds) : RLt(Zero, args.pds[i])}

RECURSIVE LossOver(_)
LossOver(I) ==
    IF I = {} THEN Zero
    ELSE LET i == CHOOSE j \in I : TRUE
         IN RAdd(RMul(args.exposures[i], args.lgds[i]), LossOver(I \ {i}))

DefaultRule(tr) ==
    /\ \A i \in 1..Len(args.pds) :
          /\ tr.defaults[i] <=> RLt(tr.asset[i], norm_ppf(args.pds[i]))
          /\ args.pds[i] = Zero => ~tr.defaults[i]
          /\ args.pds[i] = One => tr.defaults[i]
    /\ tr.loss = LossOver({i \in 1..Len(args.pds) : tr.defaults[i]})
    /\ RLe(LossOver(PdOne), tr.loss)
    /\ RLe(tr.loss, LossOver(PdPositive))

\* C10: in every trial a counterparty defaults iff its asset value is
\* strictly below the inverse normal CDF of its pd, the trial loss is the sum
\* of exposure * lgd over the defaulting counterparties, pd = 0 never
\* defaults and pd = 1 always does, so the loss lies between the sum over the
\* pd = 1 counterparties and the sum over the pd > 0 ones.
C10_DefaultRule ==
    Returned => \A t \in 1..Len(result.trials) : DefaultRule(result.trials[t])

\* The same rule in the calls whose correlation lies in [0, 1]: it holds
\* there, so C10 fails only through the unvalidated correlation of C6.
DefaultRuleForValidCorrelation ==
    (Returned /\ RLe(Zero, args.correlation) /\ RLe(args.correlation, One)) =>
        \A t \in 1..Len(result.trials) : DefaultRule(result.trials[t])


\* ---- rolling_var -------------------------------------------------------
\* the window observations before 1-based position i, oldest first
Preceding(returns, i, w) == [k \in 1..w |-> returns[i - w - 1 + k]]

\* the series with the observation at position p replaced by v
Replaced(returns, p, v) == [returns EXCEPT ![p] = v]

\* C4: the series has the length of returns; its first `window` positions
\* are undefined (all of them if window >= n); every later position holds
\* the historical VaR of exactly the `window` observations before it, and
\* does not change when that day's or any later observation is replaced.
C4_RollingWindowNoLookAhead ==
    Done("rolling_var") =>
        LET n == Len(args.returns)
            w == args.window
        IN /\ Len(result) = n
           /\ \A i \in 1..n :
                 /\ i <= w => result[i] = NaN
                 /\ i > w =>
                       /\ result[i] = historical_var(Preceding(args.returns, i, w),
                                                     args.confidence, One)
                       /\ \A p \in i..n, v \in ReturnValues :
                             rolling_var(Replaced(args.returns, p, v), w,
                                         args.confidence)[i] = result[i]

\* two scored days whose windows differ, the later return far from both
C4_Witness ==
    /\ Done("rolling_var")
    /\ Len(args.returns) = 4
    /\ args.window = 2
    /\ result[3] # result[4]
    /\ result[4] # historical_var(SubSeq(args.returns, 3, 4), args.confidence, One)

\* ---- expected_shortfall ------------------------------------------------
HistVaR == historical_var(args.returns, args.confidence, One)

\* positions whose return is strictly more negative than -VaR
TailDays == {i \in 1..Len(args.returns) : StrictlyBelowMinus(args.returns[i], HistVaR)}

RECURSIVE SumOver(_, _)
SumOver(a, I) ==
    IF I = {} THEN Zero
    ELSE LET i == CHOOSE j \in I : TRUE
         IN RAdd(a[i], SumOver(a, I \ {i}))

\* C8: with VaR = historical_var(returns, confidence), the result is the
\* magnitude of the mean of the returns strictly below -VaR when there is
\* one, and VaR itself when there is none; it is never smaller than VaR.
C8_ExpectedShortfallTail ==
    Done("expected_shortfall") =>
        /\ TailDays # {} =>
              result = RAbs(RDiv(SumOver(args.returns, TailDays),
                                 R(Cardinality(TailDays))))
        /\ TailDays = {} => result = HistVaR
        /\ RLe(HistVaR, result)

\* a tail of two returns of different size
C8_Witness ==
    /\ Done("expected_shortfall")
    /\ Cardinality(TailDays) = 2
    /\ \E i, j \in TailDays : args.returns[i] # args.returns[j]
    /\ RLt(HistVaR, result)

C8_FallbackWitness ==
    /\ Done("expected_shortfall")
    /\ TailDays = {}
    /\ \E i \in 1..Len(args.returns) : RLt(args.returns[i], Zero)
    /\ result = HistVaR

\* ---- the four estimators -----------------------------------------------
Estimators == {"historical_var", "parametric_var", "monte_carlo_var", "portfolio_var"}

\* C9 as claimed: each of the four estimators returns a non-negative value.
C9_AllEstimatorsNonNegative ==
    (pc = "done" /\ op \in Estimators) => RLe(Zero, result)

\* C9 amended: historical_var and monte_carlo_var return a non-negative
\* value; parametric_var does when the mean return is <= 0 and confidence
\* >= 1/2; portfolio_var does when confidence >= 1/2, portfolio_value >= 0
\* and w' cov w >= 0.
C9_NonNegativeWhere ==
    /\ Done("historical_var") => RLe(Zero, result)
    /\ Done("monte_carlo_var") => RLe(Zero, result)
    /\ (/\ Done("parametric_var")
        /\ RLe(RSum(args.returns), Zero)
        /\ RLe(Q(1, 2), args.confidence)) => RLe(Zero, result)
    /\ (/\ Done("portfolio_var")
        /\ RLe(Q(1, 2), args.confidence)
        /\ RLe(Zero, args.portfolio_value)
        /\ RLe(Zero, QuadForm(args.weights, args.cov_matrix))) => RLe(Zero, result)

\* a historical VaR taken from a negative percentile
C9_Witness ==
    /\ Done("historical_var")
    /\ \A i \in 1..Len(args.returns) : RLt(args.returns[i], Zero)
    /\ args.holding_period = R(4)
    /\ RLt(Zero, result)

C9_NegativeParametric == Done("parametric_var") /\ RLt(result, Zero)

C9_NegativePortfolio ==
    /\ Done("portfolio_var")
    /\ RLt(result, Zero)
    /\ RLe(Zero, args.portfolio_value)

\* ---- determinism across calls ------------------------------------------
StochasticOps == {"credit_var", "monte_carlo_var"}

\* C7: whatever was called or drawn before, a stochastic operation called
\* again with the same arguments returns what it returned the first time.
C7_SameArgumentsSameResult ==
    (pc = "done" /\ op \in StochasticOps /\ args \in DOMAIN memo[op]) =>
        result = memo[op][args]

\* a repeated call that found the generator away from its start state, after
\* the other operation had been called as well
C7_Witness ==
    /\ pc = "done"
    /\ op = "credit_var"
    /\ args \in DOMAIN memo[op]
    /\ DOMAIN memo["monte_carlo_var"] # {}
    /\ entry # 0
    /\ ~result.raised
    /\ RLt(Zero, result.worst_case)

====
